---- MODULE Spec2Model ----
(***************************************************************************)
(* Model of the scoring gateway of src/src/services/api.ts: the three      *)
(* operations of `api` (getCreditScore, getFinancialHealth,                *)
(* getAssetRecommendation), each an async function that posts one request  *)
(* through apiClient, awaits the reply and then returns a value or throws. *)
(* With it, the routes of src/src/App.tsx over a browser history stack,    *)
(* and the panel of src/src/components/BackendIntegrationTest.tsx, which   *)
(* calls getCreditScore on a click and shows what came of it.              *)
(*                                                                         *)
(* JavaScript values are tagged records [t |-> tag, v |-> content].        *)
(* Probabilities are held in ten-thousandths (0.25 is 2500) so that the    *)
(* comparisons of the adapter are integer comparisons.                     *)
(***************************************************************************)
EXTENDS Integers, Sequences, FiniteSets

VARIABLES
    callers,    \* the callers that use the gateway
    env,        \* import.meta.env.VITE_API_BASE_URL, fixed when the module loads
    pc,         \* pc[c]: where caller c's gateway call stands
    op,         \* op[c]: the gateway operation caller c invoked
    given,      \* given[c]: the request object as the caller passed it
    request,    \* request[c]: that same object as it is now
    posts,      \* posts[c]: the requests apiClient sent during the call
    reply,      \* reply[c]: what the awaited post settled with
    outcome,    \* outcome[c]: what the gateway operation handed to its caller
    envApiUrl,  \* the VITE_API_URL variable of the deployment
    requested,  \* the path the last navigation asked for
    history,    \* the browser's history stack of paths
    cursor,     \* the index in history of the entry shown
    page,       \* the element the router renders for that entry
    status,     \* BackendIntegrationTest: status
    result,     \* BackendIntegrationTest: result
    panelError, \* BackendIntegrationTest: error (a parameter name here)
    latest      \* the call record of the testBackend run started last

\* The state of the gateway's calls.
callVars == <<pc, op, given, request, posts, reply, outcome>>

\* The deployment: fixed once the application is built and loaded.
deployVars == <<callers, env, envApiUrl>>

\* The router of App.
routerVars == <<requested, history, cursor, page>>

\* The state of BackendIntegrationTest.
panelVars == <<status, result, panelError, latest>>

vars == <<callVars, deployVars, routerVars, panelVars>>

----------------------------------------------------------------------------
(* JavaScript values *)

Undef == [t |-> "undefined", v |-> 0]
Null == [t |-> "null", v |-> 0]
Num(n) == [t |-> "number", v |-> n]
Str(s) == [t |-> "string", v |-> s]
Arr(s) == [t |-> "array", v |-> s]
Obj(f) == [t |-> "object", v |-> f]

\* The fields of f and, where f has none, those of g.
Merge(f, g) ==
    [k \in DOMAIN f \cup DOMAIN g |-> IF k \in DOMAIN f THEN f[k] ELSE g[k]]

\* The object with no own property.
EmptyObj == Obj(<<>>)

Nullish(x) == x.t \in {"undefined", "null"}

\* x.k for a value x that is neither null nor undefined.
Get(x, k) ==
    IF x.t = "object" /\ k \in DOMAIN x.v THEN x.v[k] ELSE Undef

\* x?.k
OptGet(x, k) == IF Nullish(x) THEN Undef ELSE Get(x, k)

\* ToBoolean
Truthy(x) ==
    CASE x.t = "undefined" -> FALSE
      [] x.t = "null" -> FALSE
      [] x.t = "number" -> x.v # 0
      [] x.t = "string" -> x.v # ""
      [] OTHER -> TRUE

\* x <= k for a number k: null converts to 0, undefined to NaN, and NaN
\* compares false.
NumLeq(x, k) ==
    CASE x.t = "number" -> x.v <= k
      [] x.t = "null" -> 0 <= k
      [] OTHER -> FALSE

\* a || b
Or(a, b) == IF Truthy(a) THEN a ELSE b

Digit(d) ==
    CASE d = 0 -> "0" [] d = 1 -> "1" [] d = 2 -> "2" [] d = 3 -> "3"
      [] d = 4 -> "4" [] d = 5 -> "5" [] d = 6 -> "6" [] d = 7 -> "7"
      [] d = 8 -> "8" [] OTHER -> "9"

RECURSIVE NatToString(_)
NatToString(n) ==
    IF n < 10 THEN Digit(n) ELSE NatToString(n \div 10) \o Digit(n % 10)

RECURSIVE JoinFrom(_, _, _, _)
RECURSIVE ToString(_)

\* Array.prototype.join: null and undefined elements give the empty string.
JoinFrom(s, sep, i, acc) ==
    IF i > Len(s) THEN acc
    ELSE LET e == IF Nullish(s[i]) THEN "" ELSE ToString(s[i])
         IN  JoinFrom(s, sep, i + 1, IF i = 1 THEN e ELSE acc \o sep \o e)

Join(s, sep) == JoinFrom(s, sep, 1, "")

\* ToString, as the Error constructor and a template literal apply it.
ToString(x) ==
    CASE x.t = "undefined" -> "undefined"
      [] x.t = "null" -> "null"
      [] x.t = "number" ->
            IF x.v < 0 THEN "-" \o NatToString(-x.v) ELSE NatToString(x.v)
      [] x.t = "string" -> x.v
      [] x.t = "array" -> Join(x.v, ",")
      [] OTHER -> "[object Object]"

----------------------------------------------------------------------------
(* Errors and completions *)

NoError == [name |-> "none", isAxios |-> FALSE, response |-> Undef, message |-> ""]

\* new Error(message)
NewError(m) ==
    [name |-> "Error", isAxios |-> FALSE, response |-> Undef, message |-> m]

\* The TypeError the engine raises for a property read of null or undefined
\* and for a call of something that is not a function.
TypeError(m) ==
    [name |-> "TypeError", isAxios |-> FALSE, response |-> Undef, message |-> m]

\* The error axios rejects a request with; response is undefined when no
\* response was received.
AxiosError(resp, m) ==
    [name |-> "AxiosError", isAxios |-> TRUE, response |-> resp, message |-> m]

Return(x) == [c |-> "return", v |-> x, e |-> NoError]
Throw(err) == [c |-> "throw", v |-> Undef, e |-> err]

NoOutcome == [c |-> "none", v |-> Undef, e |-> NoError]

\* What the awaited apiClient.post settles with: a response carrying data, or
\* a rejection carrying an error.
Resolve(data) == [kind |-> "resolve", data |-> data, error |-> NoError]
Reject(err) == [kind |-> "reject", data |-> Undef, error |-> err]

NoReply == [kind |-> "none", data |-> Undef, error |-> NoError]

----------------------------------------------------------------------------
(* The gateway: src/src/services/api.ts *)

\* `${API_URL}/api`, API_URL being import.meta.env.VITE_API_BASE_URL.
API_BASE_URL(e) == ToString(e) \o "/api"

CreditScorePath == "/credit/score"
FinancialHealthPath == "/financial-health/score"
AssetRecommendationPath == "/asset-management/recommendation"

\* PathOf with the path of getCreditScore copied into getFinancialHealth.
PathOfCopied(o) ==
    CASE o = "getCreditScore" -> CreditScorePath
      [] o = "getFinancialHealth" -> CreditScorePath
      [] OTHER -> AssetRecommendationPath

PathOf(o) ==
    CASE o = "getCreditScore" -> CreditScorePath
      [] o = "getFinancialHealth" -> FinancialHealthPath
      [] OTHER -> AssetRecommendationPath

\* apiClient.post(path, data): one POST of data, as JSON, to path under the
\* baseURL apiClient was created with.
Post(e, path, data) ==
    [method |-> "POST",
     baseURL |-> API_BASE_URL(e),
     url |-> path,
     contentType |-> "application/json",
     data |-> data]

\* Probability thresholds 0.25 and 0.55 and the placeholder loan terms.
LowMax == 2500
MediumMax == 5500
DefaultLoanAmount == 1000000
DefaultTenorMonths == 12

\* IsLegacyShape without its test of credit_score.
IsLegacyShapeScoreOnly(data) == Get(data, "score") # Undef

\* response.data.score !== undefined && response.data.credit_score === undefined
IsLegacyShape(data) ==
    Get(data, "score") # Undef /\ Get(data, "credit_score") = Undef

\* ProbOf reading the canonical field name instead of the legacy one.
ProbOfCanonicalField(data) == Or(Get(data, "probability_of_default"), Num(0))

\* const prob = response.data.probability || 0
ProbOf(data) == Or(Get(data, "probability"), Num(0))

\* calculatedRisk with strict comparisons.
calculatedRiskStrict(prob) ==
    IF NumLeq(prob, LowMax - 1) THEN "LOW"
    ELSE IF NumLeq(prob, MediumMax - 1) THEN "MEDIUM"
    ELSE "HIGH"

\* calculatedRisk with each comparison guarded by the truthiness of prob.
calculatedRiskGuarded(prob) ==
    IF Truthy(prob) /\ NumLeq(prob, LowMax) THEN "LOW"
    ELSE IF Truthy(prob) /\ NumLeq(prob, MediumMax) THEN "MEDIUM"
    ELSE "HIGH"

\* let calculatedRisk = 'HIGH'; if (prob <= 0.25) ... else if (prob <= 0.55) ...
calculatedRisk(prob) ==
    IF NumLeq(prob, LowMax) THEN "LOW"
    ELSE IF NumLeq(prob, MediumMax) THEN "MEDIUM"
    ELSE "HIGH"

\* LegacyResult with the payload's own fields spread over the defaults.
LegacyResultSpread(data) ==
    LET prob == ProbOf(data)
    IN  Obj(Merge([credit_score |-> Get(data, "score"),
                   probability_of_default |-> prob,
                   risk_tier |-> Str(calculatedRisk(prob))],
            Merge(data.v,
                  [recommended_loan_amount |-> Num(DefaultLoanAmount),
                   recommended_tenor_months |-> Num(DefaultTenorMonths),
                   explainability |->
                       Obj([top_positive_factors |-> Arr(<<>>),
                            top_negative_factors |-> Arr(<<>>)])])))

\* The object literal the adapter returns for a legacy payload.
LegacyResult(data) ==
    LET prob == ProbOf(data)
    IN  Obj([credit_score |-> Get(data, "score"),
             probability_of_default |-> prob,
             risk_tier |-> Str(calculatedRisk(prob)),
             recommended_loan_amount |-> Num(DefaultLoanAmount),
             recommended_tenor_months |-> Num(DefaultTenorMonths),
             explainability |->
                 Obj([top_positive_factors |-> Arr(<<>>),
                      top_negative_factors |-> Arr(<<>>)])])

\* error.response?.data?.detail
DetailOf(error) == OptGet(OptGet(error.response, "data"), "detail")

\* detail?.map((d) => d.msg).join(", "): undefined for a nullish detail, a
\* TypeError when detail has no map method or an entry is null or undefined.
MapMsgJoin(detail) ==
    IF Nullish(detail) THEN Return(Undef)
    ELSE IF detail.t # "array"
    THEN Throw(TypeError("detail.map is not a function"))
    ELSE IF \E i \in 1..Len(detail.v) : Nullish(detail.v[i])
    THEN Throw(TypeError("Cannot read properties of null (reading 'msg')"))
    ELSE Return(Str(Join([i \in 1..Len(detail.v) |-> Get(detail.v[i], "msg")],
                         ", ")))

\* The try block of getCreditScore once the awaited post has settled.
CreditScoreTry(r) ==
    IF r.kind = "reject" THEN Throw(r.error)
    ELSE IF Nullish(r.data)
    THEN Throw(TypeError("Cannot read properties of null (reading 'score')"))
    ELSE IF IsLegacyShape(r.data) THEN Return(LegacyResult(r.data))
    ELSE Return(r.data)

\* The catch block of getCreditScore.
CreditScoreCatch(error) ==
    IF error.isAxios
    THEN LET detail == DetailOf(error)
             joined == MapMsgJoin(detail)
         IN  IF joined.c = "throw" THEN joined
             ELSE Throw(NewError(ToString(
                     Or(Or(joined.v, detail), Str("Unknown API error")))))
    ELSE Throw(NewError("Failed to fetch credit score"))

getCreditScore(r) ==
    LET t == CreditScoreTry(r)
    IN  IF t.c = "throw" THEN CreditScoreCatch(t.e) ELSE t

\* FinancialHealthTry with the adapter of getCreditScore applied to the payload.
FinancialHealthTryAdapting(r) == CreditScoreTry(r)

\* The try block of getFinancialHealth.
FinancialHealthTry(r) ==
    IF r.kind = "reject" THEN Throw(r.error) ELSE Return(r.data)

\* The catch block of getFinancialHealth.
FinancialHealthCatch(error) ==
    IF error.isAxios
    THEN LET message == Or(DetailOf(error), Str(error.message))
         IN  Throw(NewError("Financial Health API Error: " \o ToString(message)))
    ELSE Throw(NewError("Failed to fetch financial health"))

getFinancialHealth(r) ==
    LET t == FinancialHealthTry(r)
    IN  IF t.c = "throw" THEN FinancialHealthCatch(t.e) ELSE t

\* The try block of getAssetRecommendation.
AssetRecommendationTry(r) ==
    IF r.kind = "reject" THEN Throw(r.error) ELSE Return(r.data)

\* The catch block of getAssetRecommendation.
AssetRecommendationCatch(error) ==
    IF error.isAxios
    THEN LET detail == DetailOf(error)
             joined == MapMsgJoin(detail)
         IN  IF joined.c = "throw" THEN joined
             ELSE Throw(NewError(ToString(
                     Or(Or(joined.v, detail), Str("Unknown API error")))))
    ELSE Throw(NewError("Failed to fetch asset recommendation"))

getAssetRecommendation(r) ==
    LET t == AssetRecommendationTry(r)
    IN  IF t.c = "throw" THEN AssetRecommendationCatch(t.e) ELSE t

----------------------------------------------------------------------------
(* What the backend and the transport can answer *)

\* Longest `detail` list of an error body.
MaxDetail == 2

\* The most entries the history stack is followed to.
MaxHistory == 2

\* Probabilities a payload carries, in ten-thousandths: both sides of each
\* threshold, the ends of [0, 1] and a value outside on either side.
ProbValues == {-1, 0, 2500, 2501, 5500, 5501, 10000, 10001}

ScoreValues == {Num(700), Num(0)}

\* The fields of a canonical payload other than credit_score.
CanonicalRest ==
    [probability_of_default |-> Num(1200),
     risk_tier |-> Str("LOW"),
     recommended_loan_amount |-> Num(250000),
     recommended_tenor_months |-> Num(6),
     explainability |->
         Obj([top_positive_factors |->
                  Arr(<<Obj([feature |-> Str("PAY_0"), impact |-> Num(3)])>>),
              top_negative_factors |-> Arr(<<>>)])]

ScoreParts == {<<>>} \cup {[score |-> s] : s \in ScoreValues}
ProbParts ==
    {<<>>, [probability |-> Null]}
        \cup {[probability |-> Num(p)] : p \in ProbValues}
RestParts == {<<>>, CanonicalRest}

\* JSON objects a 2xx response can carry: any combination of the legacy
\* fields, credit_score and the remaining canonical fields. A payload with
\* credit_score carries at most one probability value.
PayloadObjects ==
    {Obj(Merge(Merge(s, p), Merge(c, x))) :
        s \in ScoreParts, p \in ProbParts, c \in {<<>>}, x \in RestParts}
    \cup
    {Obj(Merge(Merge(s, p), Merge(c, x))) :
        s \in ScoreParts, p \in {<<>>, [probability |-> Num(2501)]},
        c \in {[credit_score |-> Num(650)], [credit_score |-> Null]},
        x \in RestParts}

Payloads == PayloadObjects \cup {Null, Str("")}

\* Entries of a `detail` list: validation errors with a msg, with an empty
\* msg, without a msg, and a null entry.
DetailEntries ==
    {Obj([msg |-> Str("age required")]),
     Obj([msg |-> Str("limit required")]),
     Obj([msg |-> Str("")]),
     Obj([loc |-> Str("body")]),
     Null}

RECURSIVE SeqsUpTo(_, _)
SeqsUpTo(S, n) ==
    IF n = 0 THEN {<<>>}
    ELSE LET shorter == SeqsUpTo(S, n - 1)
         IN  shorter \cup {Append(s, e) : s \in shorter, e \in S}

Details ==
    {Null, Str(""), Str("invalid token"), Num(0), Obj([code |-> Num(7)])}
        \cup {Arr(s) : s \in SeqsUpTo(DetailEntries, MaxDetail)}

\* Bodies of a non-2xx response.
ErrorBodies ==
    {Undef, Null, Str("<html>"), EmptyObj}
        \cup {Obj([detail |-> d]) : d \in Details}

HttpStatusMessage == "Request failed with status code 422"
NetworkMessages == {"Network Error", "connect ECONNREFUSED 127.0.0.1:8000"}

\* Rejections of apiClient.post: a non-2xx response, a transport failure with
\* no response, and an exception that is no AxiosError.
Rejections ==
    {AxiosError(Obj([status |-> Num(422), data |-> b]), HttpStatusMessage) :
        b \in ErrorBodies}
    \cup {AxiosError(Undef, m) : m \in NetworkMessages}
    \cup {TypeError("Converting circular structure to JSON")}

Replies == {Resolve(d) : d \in Payloads} \cup {Reject(e) : e \in Rejections}

\* Replies of the runs with two callers: one of each kind.
ConcurrentReplies ==
    {Resolve(Obj([score |-> Num(700), probability |-> Num(2501)])),
     Resolve(Obj([score |-> Num(0)])),
     Resolve(Obj(Merge([credit_score |-> Num(650)], CanonicalRest))),
     Resolve(EmptyObj),
     Reject(AxiosError(Obj([status |-> Num(422),
                            data |-> Obj([detail |-> Str("invalid token")])]),
                       HttpStatusMessage)),
     Reject(AxiosError(Obj([status |-> Num(422),
                            data |-> Obj([detail |->
                                Arr(<<Obj([msg |-> Str("age required")]),
                                      Obj([msg |-> Str("limit required")])>>)])]),
                       HttpStatusMessage)),
     Reject(AxiosError(Undef, "Network Error")),
     Reject(TypeError("Converting circular structure to JSON"))}

\* The request object of BackendIntegrationTest, a CreditScoreRequest.
dummyRequest ==
    [LIMIT_BAL |-> Num(50000), AGE |-> Num(35), SEX |-> Num(1),
     EDUCATION |-> Num(2), MARRIAGE |-> Num(1),
     PAY_0 |-> Num(0), PAY_2 |-> Num(0), PAY_3 |-> Num(0),
     PAY_4 |-> Num(0), PAY_5 |-> Num(0), PAY_6 |-> Num(0),
     BILL_AMT1 |-> Num(1000), BILL_AMT2 |-> Num(1200), BILL_AMT3 |-> Num(1300),
     BILL_AMT4 |-> Num(1400), BILL_AMT5 |-> Num(1500), BILL_AMT6 |-> Num(1600),
     PAY_AMT1 |-> Num(100), PAY_AMT2 |-> Num(100), PAY_AMT3 |-> Num(100),
     PAY_AMT4 |-> Num(100), PAY_AMT5 |-> Num(100), PAY_AMT6 |-> Num(100)]

\* CreditScoreRequest objects callers pass.
CreditScoreRequests ==
    {Obj(dummyRequest),
     Obj([dummyRequest EXCEPT !.LIMIT_BAL = Num(200000), !.AGE = Num(52),
                              !.PAY_0 = Num(2)])}

\* Request objects callers pass to getAssetRecommendation.
AssetRecommendationRequests ==
    {Obj([financial_health_score |-> Num(72), credit_score |-> Num(700),
          risk_tier |-> Str("LOW"), LIMIT_BAL |-> Num(50000), AGE |-> Num(35)]),
     Obj([financial_health_score |-> Num(40), credit_score |-> Num(520),
          risk_tier |-> Str("HIGH"), LIMIT_BAL |-> Num(200000), AGE |-> Num(52)])}

RequestsOf(o) ==
    IF o = "getAssetRecommendation" THEN AssetRecommendationRequests
    ELSE CreditScoreRequests

----------------------------------------------------------------------------
(* The router: src/src/App.tsx *)

\* A path is the sequence of its segments: "/" is <<>>, "/applicant/7" is
\* <<"applicant", "7">>.
Root == <<>>
DashboardPath == <<"dashboard">>

\* The segments of a route's path pattern.
Static(s) == [k |-> "static", s |-> s]
Param(s) == [k |-> "param", s |-> s]
Splat == [k |-> "splat", s |-> "*"]

\* The elements of the routes.
Page(name) == [kind |-> "page", name |-> name, to |-> Root, replace |-> FALSE]
Navigate(to, replace) ==
    [kind |-> "navigate", name |-> "Navigate", to |-> to, replace |-> replace]
Nothing == [kind |-> "none", name |-> "null", to |-> Root, replace |-> FALSE]

Route(path, element) == [path |-> path, element |-> element]

\* The children of <Routes>, in the order they are declared.
Routes == <<
    Route(Root, Navigate(DashboardPath, TRUE)),
    Route(<<Static("dashboard")>>, Page("Dashboard")),
    Route(<<Static("applicants")>>, Page("Applicants")),
    Route(<<Static("credit-scoring")>>, Page("CreditScoring")),
    Route(<<Static("applicant"), Param("id")>>, Page("ApplicantDetail")),
    Route(<<Static("asset-management")>>, Page("AssetManagementDashboard")),
    Route(<<Static("asset-management"), Static("customers"), Param("id")>>,
          Page("CustomerInvestmentProfile")),
    Route(<<Static("asset-management"), Static("recommendations"), Param("id")>>,
          Page("InvestmentRecommendation")),
    Route(<<Static("asset-management"), Static("portfolio"), Param("id")>>,
          Page("PortfolioViewer")),
    Route(<<Static("admin"), Static("asset-management")>>,
          Page("AdminAssetManagement")),
    Route(<<Splat>>, Page("NotFound")) >>

\* Matches where a pattern that is a prefix of the path matches it too.
RECURSIVE MatchesPrefix(_, _)
MatchesPrefix(pattern, path) ==
    IF pattern = <<>> THEN TRUE
    ELSE IF Head(pattern).k = "splat" THEN TRUE
    ELSE /\ path # <<>>
         /\ Head(pattern).k = "param" \/ Head(pattern).s = Head(path)
         /\ MatchesPrefix(Tail(pattern), Tail(path))

\* A route's pattern matches a path: segment by segment to the end of both,
\* a parameter matching any one segment and the splat whatever is left.
RECURSIVE Matches(_, _)
Matches(pattern, path) ==
    IF pattern = <<>> THEN path = <<>>
    ELSE IF Head(pattern).k = "splat" THEN TRUE
    ELSE /\ path # <<>>
         /\ Head(pattern).k = "param" \/ Head(pattern).s = Head(path)
         /\ Matches(Tail(pattern), Tail(path))

\* The rank of a pattern: static segments outrank parameters, and a splat
\* ranks below every pattern without one.
RECURSIVE Score(_)
Score(pattern) ==
    IF pattern = <<>> THEN 0
    ELSE Score(Tail(pattern)) +
         (CASE Head(pattern).k = "static" -> 11
            [] Head(pattern).k = "param" -> 4
            [] OTHER -> 0 - 1)

\* The element <Routes> renders at a path: that of the matching route of
\* the highest rank, the first declared among equals; nothing without a match.
ElementAt(path) ==
    LET ms == {i \in DOMAIN Routes : Matches(Routes[i].path, path)}
    IN  IF ms = {} THEN Nothing
        ELSE Routes[CHOOSE i \in ms : \A j \in ms :
                        \/ Score(Routes[i].path) > Score(Routes[j].path)
                        \/ /\ Score(Routes[i].path) = Score(Routes[j].path)
                           /\ i <= j].element

\* The history after <Navigate> has acted on the entry at i: a replacing
\* one overwrites the entry, any other pushes a new entry after it.
NavigatePushing(h, i, el) == SubSeq(h, 1, i) \o <<el.to>>

NavigateIn(h, i, el) ==
    IF el.replace THEN [h EXCEPT ![i] = el.to]
    ELSE SubSeq(h, 1, i) \o <<el.to>>

\* The router renders the entry at i of history h: a <Navigate> element
\* moves the location on, and the element of the new location is rendered.
Render(h, i) ==
    LET el == ElementAt(h[i])
    IN  IF el.kind = "navigate"
        THEN LET h2 == NavigateIn(h, i, el)
                 i2 == IF Len(h2) > Len(h) THEN i + 1 ELSE i
             IN  [history |-> h2, cursor |-> i2, page |-> ElementAt(h2[i2])]
        ELSE [history |-> h, cursor |-> i, page |-> el]

\* The paths a user asks for: the root, each declared route, and paths
\* that are a part of a declared one, go past one, or are foreign.
Paths == {
    Root,
    <<"dashboard">>,
    <<"applicants">>,
    <<"credit-scoring">>,
    <<"applicant", "7">>,
    <<"asset-management">>,
    <<"asset-management", "customers", "7">>,
    <<"asset-management", "recommendations", "7">>,
    <<"asset-management", "portfolio", "7">>,
    <<"admin", "asset-management">>,
    <<"applicant">>,
    <<"applicant", "7", "edit">>,
    <<"asset-management", "customers">>,
    <<"admin">>,
    <<"dashboard", "applicants">>,
    <<"non-existent-route">> }

----------------------------------------------------------------------------
(* The panel: src/src/components/BackendIntegrationTest.tsx *)

\* The endpoint the panel displays.
ShownEndpoint(apiUrl) == ToString(Or(apiUrl, Str("Local"))) \o "/api/credit/score"

\* The endpoint a post of the gateway goes to.
CalledEndpoint(post) == post.baseURL \o post.url

\* The button's disabled attribute, with the attribute left off.
ButtonEnabledAlways(st) == FALSE

\* The button's disabled attribute.
ButtonDisabled(st) == st = "LOADING"

\* The status after the awaited call, with the catch block leaving it alone.
StatusAfterStuck(o) == IF o.c = "return" THEN "SUCCESS" ELSE "LOADING"

\* The status testBackend sets once the awaited call has completed with o.
StatusAfter(o) == IF o.c = "return" THEN "SUCCESS" ELSE "ERROR"

\* The result after the awaited call, with the catch block clearing it.
ResultAfterClearing(o, res) == IF o.c = "return" THEN o.v ELSE Null

\* The result: set to the response when the call returned, left as it was
\* when it threw.
ResultAfter(o, res) == IF o.c = "return" THEN o.v ELSE res

\* The error after the awaited call, without the fallback text.
ErrorAfterNoFallback(o, err) == IF o.c = "return" THEN err ELSE Str(o.e.message)

\* The error: left as it was when the call returned, the thrown message or
\* the fallback text when it threw.
ErrorAfter(o, err) ==
    IF o.c = "return" THEN err
    ELSE Or(Str(o.e.message), Str("Failed to connect to backend"))

----------------------------------------------------------------------------
(* The state machine *)

Callers == {"c1", "c2"}
Operations == {"getCreditScore", "getFinancialHealth", "getAssetRecommendation"}
BaseUrls == {Undef, Str("https://backend.example")}

\* No call made yet.
InitIdleCalls ==
    /\ pc = [c \in Callers |-> "idle"]
    /\ op = [c \in Callers |-> "none"]
    /\ given = [c \in Callers |-> Undef]
    /\ request = [c \in Callers |-> Undef]
    /\ posts = [c \in Callers |-> <<>>]
    /\ reply = [c \in Callers |-> NoReply]
    /\ outcome = [c \in Callers |-> NoOutcome]

\* Any deployment, no call made yet.
InitCalls ==
    /\ env \in BaseUrls
    /\ envApiUrl \in BaseUrls
    /\ InitIdleCalls

\* The application showing the dashboard, no navigation made since.
InitRouterIdle ==
    /\ requested = DashboardPath
    /\ history = <<DashboardPath>>
    /\ cursor = 1
    /\ page = ElementAt(DashboardPath)

\* The panel as mounted: the initial values of its useState hooks.
InitPanelState ==
    /\ status = "IDLE"
    /\ result = Null
    /\ panelError = Null
    /\ latest = "none"

\* One caller, making its calls one after the other.
Init == callers = {"c1"} /\ InitCalls /\ InitRouterIdle /\ InitPanelState

\* Two callers, whose calls overlap in every way.
InitConcurrent ==
    callers = Callers /\ InitCalls /\ InitRouterIdle /\ InitPanelState

\* What the backend and the transport answer with: every reply when one
\* caller is followed, one reply of each kind when two are.
ReplyChoices == IF callers = Callers THEN ConcurrentReplies ELSE Replies

\* Invoke with the request object coerced in place before it is sent.
InvokeCoercing(c, o, d) ==
    /\ c \in callers
    /\ pc[c] = "idle"
    /\ pc' = [pc EXCEPT ![c] = "awaiting"]
    /\ op' = [op EXCEPT ![c] = o]
    /\ given' = [given EXCEPT ![c] = d]
    /\ request' = [request EXCEPT ![c] = Obj([d.v EXCEPT !.AGE = Num(0)])]
    /\ posts' = [posts EXCEPT ![c] =
                    <<Post(env, PathOf(o), Obj([d.v EXCEPT !.AGE = Num(0)]))>>]
    /\ reply' = [reply EXCEPT ![c] = NoReply]
    /\ outcome' = [outcome EXCEPT ![c] = NoOutcome]
    /\ UNCHANGED <<deployVars, routerVars, panelVars>>

\* Caller c invokes operation o with the request object d: the function runs
\* up to its await, having handed apiClient.post the operation's path and d.
Invoke(c, o, d) ==
    /\ c \in callers
    /\ pc[c] = "idle"
    /\ pc' = [pc EXCEPT ![c] = "awaiting"]
    /\ op' = [op EXCEPT ![c] = o]
    /\ given' = [given EXCEPT ![c] = d]
    /\ request' = [request EXCEPT ![c] = d]
    /\ posts' = [posts EXCEPT ![c] = <<Post(env, PathOf(o), d)>>]
    /\ reply' = [reply EXCEPT ![c] = NoReply]
    /\ outcome' = [outcome EXCEPT ![c] = NoOutcome]
    /\ UNCHANGED <<deployVars, routerVars, panelVars>>

\* SettleCreditScore with one retry: a rejected post is sent again.
SettleCreditScoreRetrying(c) ==
    /\ c \in callers
    /\ pc[c] = "awaiting"
    /\ op[c] = "getCreditScore"
    /\ \E r \in ReplyChoices :
         IF r.kind = "reject" /\ Len(posts[c]) = 1
         THEN /\ posts' = [posts EXCEPT ![c] = Append(@, @[1])]
              /\ UNCHANGED <<pc, reply, outcome>>
         ELSE /\ reply' = [reply EXCEPT ![c] = r]
              /\ outcome' = [outcome EXCEPT ![c] = getCreditScore(r)]
              /\ pc' = [pc EXCEPT ![c] = "settled"]
              /\ UNCHANGED posts
    /\ UNCHANGED <<op, given, request>>
    /\ UNCHANGED <<deployVars, routerVars, panelVars>>

\* SettleCreditScore with the last response kept at module level and reused
\* while another call of the operation holds its result.
SettleCreditScoreMemo(c) ==
    /\ c \in callers
    /\ pc[c] = "awaiting"
    /\ op[c] = "getCreditScore"
    /\ \E r \in ReplyChoices :
         /\ reply' = [reply EXCEPT ![c] = r]
         /\ outcome' = [outcome EXCEPT ![c] =
              IF \E d \in Callers \ {c} :
                     pc[d] = "settled" /\ op[d] = "getCreditScore"
              THEN outcome[CHOOSE d \in Callers \ {c} :
                               pc[d] = "settled" /\ op[d] = "getCreditScore"]
              ELSE getCreditScore(r)]
    /\ pc' = [pc EXCEPT ![c] = "settled"]
    /\ UNCHANGED <<op, given, request, posts>>
    /\ UNCHANGED <<deployVars, routerVars, panelVars>>

\* The awaited post of c's getCreditScore call settles with some reply and
\* the function runs to its end, returning or throwing.
SettleCreditScore(c) ==
    /\ c \in callers
    /\ pc[c] = "awaiting"
    /\ op[c] = "getCreditScore"
    /\ \E r \in ReplyChoices :
         /\ reply' = [reply EXCEPT ![c] = r]
         /\ outcome' = [outcome EXCEPT ![c] = getCreditScore(r)]
    /\ pc' = [pc EXCEPT ![c] = "settled"]
    /\ UNCHANGED <<op, given, request, posts>>
    /\ UNCHANGED <<deployVars, routerVars, panelVars>>

SettleFinancialHealth(c) ==
    /\ c \in callers
    /\ pc[c] = "awaiting"
    /\ op[c] = "getFinancialHealth"
    /\ \E r \in ReplyChoices :
         /\ reply' = [reply EXCEPT ![c] = r]
         /\ outcome' = [outcome EXCEPT ![c] = getFinancialHealth(r)]
    /\ pc' = [pc EXCEPT ![c] = "settled"]
    /\ UNCHANGED <<op, given, request, posts>>
    /\ UNCHANGED <<deployVars, routerVars, panelVars>>

SettleAssetRecommendation(c) ==
    /\ c \in callers
    /\ pc[c] = "awaiting"
    /\ op[c] = "getAssetRecommendation"
    /\ \E r \in ReplyChoices :
         /\ reply' = [reply EXCEPT ![c] = r]
         /\ outcome' = [outcome EXCEPT ![c] = getAssetRecommendation(r)]
    /\ pc' = [pc EXCEPT ![c] = "settled"]
    /\ UNCHANGED <<op, given, request, posts>>
    /\ UNCHANGED <<deployVars, routerVars, panelVars>>

\* The caller has consumed the outcome and may call again.
Discard(c) ==
    /\ c \in callers
    /\ pc[c] = "settled"
    /\ pc' = [pc EXCEPT ![c] = "idle"]
    /\ op' = [op EXCEPT ![c] = "none"]
    /\ given' = [given EXCEPT ![c] = Undef]
    /\ request' = [request EXCEPT ![c] = Undef]
    /\ posts' = [posts EXCEPT ![c] = <<>>]
    /\ reply' = [reply EXCEPT ![c] = NoReply]
    /\ outcome' = [outcome EXCEPT ![c] = NoOutcome]
    /\ UNCHANGED <<deployVars, routerVars, panelVars>>

Next ==
    \E c \in Callers :
        \/ \E o \in Operations : \E d \in RequestsOf(o) : Invoke(c, o, d)
        \/ SettleCreditScore(c)
        \/ SettleFinancialHealth(c)
        \/ SettleAssetRecommendation(c)
        \/ Discard(c)

Spec == Init /\ [][Next]_vars

SpecConcurrent == InitConcurrent /\ [][Next]_vars

----------------------------------------------------------------------------
(* The router's state machine *)

\* The application loaded at any path, the router having rendered it.
InitRouter ==
    /\ callers = {}
    /\ env = Str("https://backend.example")
    /\ envApiUrl = Undef
    /\ InitIdleCalls
    /\ InitPanelState
    /\ \E p \in Paths :
         LET r == Render(<<p>>, 1)
         IN  /\ requested = p
             /\ history = r.history
             /\ cursor = r.cursor
             /\ page = r.page

\* The user asks for path p, by a link or the address bar: the entries
\* after the current one are dropped, p is pushed and the router renders.
Visit(p) ==
    /\ cursor < MaxHistory
    /\ LET r == Render(SubSeq(history, 1, cursor) \o <<p>>, cursor + 1)
       IN  /\ history' = r.history
           /\ cursor' = r.cursor
           /\ page' = r.page
    /\ requested' = p
    /\ UNCHANGED <<callVars, deployVars, panelVars>>

\* The browser's back button: the entry before the current one is rendered.
Back ==
    /\ cursor > 1
    /\ LET r == Render(history, cursor - 1)
       IN  /\ history' = r.history
           /\ cursor' = r.cursor
           /\ page' = r.page
    /\ requested' = history[cursor - 1]
    /\ UNCHANGED <<callVars, deployVars, panelVars>>

\* The browser's forward button.
Forward ==
    /\ cursor < Len(history)
    /\ LET r == Render(history, cursor + 1)
       IN  /\ history' = r.history
           /\ cursor' = r.cursor
           /\ page' = r.page
    /\ requested' = history[cursor + 1]
    /\ UNCHANGED <<callVars, deployVars, panelVars>>

NextRouter ==
    \/ \E p \in Paths : Visit(p)
    \/ Back
    \/ Forward

SpecRouter == InitRouter /\ [][NextRouter]_vars

----------------------------------------------------------------------------
(* The panel's state machine *)

\* The panel mounted, under any deployment, no test run yet.
InitPanel ==
    /\ callers = {}
    /\ InitCalls
    /\ InitRouterIdle
    /\ InitPanelState

\* The call record a run of testBackend takes: the first not in flight.
FreeRecord == IF pc["c1"] # "awaiting" THEN "c1" ELSE "c2"

\* A click on the button: testBackend runs up to its await, having set the
\* status, cleared the error and called getCreditScore with dummyRequest.
TestBackend(c) ==
    /\ ~ButtonDisabled(status)
    /\ c = FreeRecord
    /\ pc[c] # "awaiting"
    /\ status' = "LOADING"
    /\ panelError' = Null
    /\ latest' = c
    /\ pc' = [pc EXCEPT ![c] = "awaiting"]
    /\ op' = [op EXCEPT ![c] = "getCreditScore"]
    /\ given' = [given EXCEPT ![c] = Obj(dummyRequest)]
    /\ request' = [request EXCEPT ![c] = Obj(dummyRequest)]
    /\ posts' = [posts EXCEPT ![c] =
                    <<Post(env, PathOf("getCreditScore"), Obj(dummyRequest))>>]
    /\ reply' = [reply EXCEPT ![c] = NoReply]
    /\ outcome' = [outcome EXCEPT ![c] = NoOutcome]
    /\ UNCHANGED <<result, deployVars, routerVars>>

\* The awaited getCreditScore call of a run completes and testBackend runs
\* to its end, through the rest of the try block or through the catch block.
TestBackendSettles(c) ==
    /\ pc[c] = "awaiting"
    /\ op[c] = "getCreditScore"
    /\ \E r \in Replies :
         LET o == getCreditScore(r)
         IN  /\ reply' = [reply EXCEPT ![c] = r]
             /\ outcome' = [outcome EXCEPT ![c] = o]
             /\ status' = StatusAfter(o)
             /\ result' = ResultAfter(o, result)
             /\ panelError' = ErrorAfter(o, panelError)
    /\ pc' = [pc EXCEPT ![c] = "settled"]
    /\ UNCHANGED <<latest, op, given, request, posts, deployVars, routerVars>>

NextPanel ==
    \E c \in Callers :
        \/ TestBackend(c)
        \/ TestBackendSettles(c)

SpecPanel == InitPanel /\ [][NextPanel]_vars

----------------------------------------------------------------------------
(* Properties of the gateway *)

\* Caller c's call of operation o has returned or thrown.
Settled(c, o) == pc[c] = "settled" /\ op[c] = o

\* x is a JSON object with a field k.
HasField(x, k) == x.t = "object" /\ k \in DOMAIN x.v

\* c's getCreditScore call received a 2xx response.
CreditScoreAnswered(c) ==
    Settled(c, "getCreditScore") /\ reply[c].kind = "resolve"

\* ... whose payload has `score` and has no `credit_score`.
LegacyAnswered(c) ==
    /\ CreditScoreAnswered(c)
    /\ HasField(reply[c].data, "score")
    /\ ~HasField(reply[c].data, "credit_score")

\* c's call was rejected with an AxiosError.
AxiosRejected(c) ==
    pc[c] = "settled" /\ reply[c].kind = "reject" /\ reply[c].error.isAxios

\* The `detail` of the error body c's call was rejected with.
RejectedDetail(c) == DetailOf(reply[c].error)

ScoreResultFields ==
    {"credit_score", "probability_of_default", "risk_tier",
     "recommended_loan_amount", "recommended_tenor_months", "explainability"}

\* Every required field of CreditScoreResponse is there, the explainability
\* block with both of its lists.
IsScoreResult(x) ==
    /\ x.t = "object"
    /\ ScoreResultFields \subseteq DOMAIN x.v
    /\ HasField(x.v["explainability"], "top_positive_factors")
    /\ HasField(x.v["explainability"], "top_negative_factors")
    /\ x.v["explainability"].v["top_positive_factors"].t = "array"
    /\ x.v["explainability"].v["top_negative_factors"].t = "array"

\* C1: every 2xx payload given to getCreditScore ends in a fully populated
\* ScoreResult being returned or in an Error being thrown; a raw payload is
\* never returned.
C1_ScoreResultOrGatewayError ==
    \A c \in Callers :
        CreditScoreAnswered(c) =>
            \/ outcome[c].c = "return" /\ IsScoreResult(outcome[c].v)
            \/ outcome[c].c = "throw" /\ outcome[c].e.name = "Error"

\* C2: a non-2xx response whose `detail` is a plain string makes every
\* gateway operation throw an error whose message is that string exactly.
C2_StringDetailIsMessage ==
    \A c \in Callers :
        AxiosRejected(c) /\ RejectedDetail(c).t = "string" =>
            /\ outcome[c].c = "throw"
            /\ outcome[c].e.message = RejectedDetail(c).v

\* Every entry of the list x carries a string `msg`.
EachHasMsg(x) ==
    \A i \in 1..Len(x.v) :
        HasField(x.v[i], "msg") /\ x.v[i].v["msg"].t = "string"

\* C3: a non-2xx response to getCreditScore whose `detail` is a list of
\* entries each carrying a `msg` gives an error whose message is the msg
\* values, in list order, joined with ", ".
C3_ListDetailJoined ==
    \A c \in Callers :
        /\ AxiosRejected(c)
        /\ op[c] = "getCreditScore"
        /\ RejectedDetail(c).t = "array"
        /\ EachHasMsg(RejectedDetail(c))
        => /\ outcome[c].c = "throw"
           /\ outcome[c].e.message =
                Join([i \in 1..Len(RejectedDetail(c).v) |->
                         RejectedDetail(c).v[i].v["msg"]], ", ")

\* C4: a transport failure that carries no response makes getCreditScore
\* throw an error whose message is the transport error's own message.
C4_TransportMessageKept ==
    \A c \in Callers :
        /\ AxiosRejected(c)
        /\ op[c] = "getCreditScore"
        /\ reply[c].error.response = Undef
        => /\ outcome[c].c = "throw"
           /\ outcome[c].e.message = reply[c].error.message

\* C5: whatever the awaited post of any of the three operations is rejected
\* with, what escapes the operation is an Error made by the catch block, and
\* neither the rejection itself nor an exception raised while the message is
\* built.
C5_OnlyGatewayErrorEscapes ==
    \A c \in Callers :
        pc[c] = "settled" /\ reply[c].kind = "reject" =>
            /\ outcome[c].c = "throw"
            /\ outcome[c].e.name = "Error"

\* The tier the thresholds 0.25 and 0.55 assign to p ten-thousandths.
TierOf(p) == IF p <= 2500 THEN "LOW" ELSE IF p <= 5500 THEN "MEDIUM" ELSE "HIGH"

\* C6: for a legacy payload with a numeric probability, risk_tier is LOW up
\* to 0.25, MEDIUM above 0.25 and up to 0.55, and HIGH above 0.55.
C6_TierBoundaries ==
    \A c \in Callers :
        /\ LegacyAnswered(c)
        /\ HasField(reply[c].data, "probability")
        /\ reply[c].data.v["probability"].t = "number"
        => /\ outcome[c].c = "return"
           /\ Get(outcome[c].v, "risk_tier") =
                Str(TierOf(reply[c].data.v["probability"].v))

\* A legacy payload with probability 0.2501 was answered with tier MEDIUM.
C6_Witness ==
    \E c \in Callers :
        /\ LegacyAnswered(c)
        /\ Get(reply[c].data, "probability") = Num(2501)
        /\ Get(outcome[c].v, "risk_tier") = Str("MEDIUM")

\* C7: a 2xx payload that contains `credit_score` is returned as it is.
C7_CanonicalPassthrough ==
    \A c \in Callers :
        CreditScoreAnswered(c) /\ HasField(reply[c].data, "credit_score") =>
            outcome[c] = Return(reply[c].data)

\* A payload with both `score` and `credit_score` was returned unchanged.
C7_Witness ==
    \E c \in Callers :
        /\ CreditScoreAnswered(c)
        /\ HasField(reply[c].data, "credit_score")
        /\ HasField(reply[c].data, "score")
        /\ outcome[c].c = "return"
        /\ outcome[c].v = reply[c].data

\* C8: every legacy payload gets recommended_loan_amount 1000000,
\* recommended_tenor_months 12 and two empty explainability lists.
C8_LegacyDefaults ==
    \A c \in Callers :
        LegacyAnswered(c) =>
            /\ outcome[c].c = "return"
            /\ Get(outcome[c].v, "recommended_loan_amount") = Num(1000000)
            /\ Get(outcome[c].v, "recommended_tenor_months") = Num(12)
            /\ Get(outcome[c].v, "explainability") =
                 Obj([top_positive_factors |-> Arr(<<>>),
                      top_negative_factors |-> Arr(<<>>)])

\* A legacy payload that carried loan terms of its own got the defaults.
C8_Witness ==
    \E c \in Callers :
        /\ LegacyAnswered(c)
        /\ Get(reply[c].data, "recommended_loan_amount") = Num(250000)
        /\ Get(outcome[c].v, "recommended_loan_amount") = Num(1000000)
        /\ Get(outcome[c].v, "recommended_tenor_months") = Num(12)

C10_MissingProbability ==
    \A c \in Callers :
        LegacyAnswered(c) /\ ~HasField(reply[c].data, "probability") =>
            /\ outcome[c].c = "return"
            /\ Get(outcome[c].v, "probability_of_default") = Num(0)
            /\ Get(outcome[c].v, "risk_tier") = Str("LOW")

\* The payload {score: 700} was answered with probability 0 and tier LOW.
C10_Witness ==
    \E c \in Callers :
        /\ CreditScoreAnswered(c)
        /\ reply[c].data = Obj([score |-> Num(700)])
        /\ Get(outcome[c].v, "probability_of_default") = Num(0)
        /\ Get(outcome[c].v, "risk_tier") = Str("LOW")

\* C11: a 2xx response whose body is null or an empty object makes every
\* gateway operation throw instead of returning a value.
C11_MalformedBodyThrows ==
    \A c \in Callers :
        /\ pc[c] = "settled"
        /\ reply[c].kind = "resolve"
        /\ reply[c].data \in {Null, EmptyObj}
        => outcome[c].c = "throw"

\* C12: getFinancialHealth and getCreditScore, rejected with the same
\* AxiosError, throw errors with the same message.
C12_SameMessageAsCreditScore ==
    \A c, d \in Callers :
        /\ Settled(c, "getCreditScore")
        /\ Settled(d, "getFinancialHealth")
        /\ AxiosRejected(c)
        /\ reply[d] = reply[c]
        => /\ outcome[c].c = "throw"
           /\ outcome[d].c = "throw"
           /\ outcome[d].e.message = outcome[c].e.message

\* The message the stated priority order gives: the msg values of a list
\* `detail` joined with ", ", else `detail` itself, else the message of the
\* transport error.
PriorityMessage(error) ==
    LET detail == DetailOf(error)
    IN  IF detail.t = "array"
        THEN Join([i \in 1..Len(detail.v) |-> Get(detail.v[i], "msg")], ", ")
        ELSE IF ~Nullish(detail) THEN ToString(detail)
        ELSE error.message

\* C13: getAssetRecommendation, rejected with an AxiosError whose `detail` is
\* a list of entries with a msg, a string, or absent, throws an error whose
\* message follows the priority order.
C13_AssetPriorityOrder ==
    \A c \in Callers :
        /\ AxiosRejected(c)
        /\ op[c] = "getAssetRecommendation"
        /\ \/ RejectedDetail(c).t = "array" /\ EachHasMsg(RejectedDetail(c))
           \/ RejectedDetail(c).t = "string"
           \/ RejectedDetail(c) = Undef
        => /\ outcome[c].c = "throw"
           /\ outcome[c].e.message = PriorityMessage(reply[c].error)

\* C14: every value getCreditScore returns has a risk_tier among LOW, MEDIUM
\* and HIGH and a probability_of_default within [0, 1].
C14_TierAndProbabilityInRange ==
    \A c \in Callers :
        Settled(c, "getCreditScore") /\ outcome[c].c = "return" =>
            /\ Get(outcome[c].v, "risk_tier") \in
                 {Str("LOW"), Str("MEDIUM"), Str("HIGH")}
            /\ Get(outcome[c].v, "probability_of_default").t = "number"
            /\ Get(outcome[c].v, "probability_of_default").v \in 0..10000

\* C15: a call has sent exactly one request from its invocation on, also
\* after its post was rejected, and once the post has settled the call has
\* returned or thrown.
C15_OneRequestPerCall ==
    \A c \in Callers :
        /\ pc[c] = "idle" => posts[c] = <<>>
        /\ pc[c] \in {"awaiting", "settled"} => Len(posts[c]) = 1
        /\ pc[c] = "awaiting" => reply[c] = NoReply /\ outcome[c] = NoOutcome
        /\ pc[c] = "settled" =>
             \/ reply[c].kind = "resolve" /\ outcome[c].c \in {"return", "throw"}
             \/ reply[c].kind = "reject" /\ outcome[c].c = "throw"

\* A getCreditScore call whose post was rejected has thrown, having sent one
\* request.
C15_Witness ==
    \E c \in Callers :
        /\ Settled(c, "getCreditScore")
        /\ reply[c].kind = "reject"
        /\ outcome[c].c = "throw"
        /\ Len(posts[c]) = 1

\* What operation o makes of the reply r.
OutcomeOf(o, r) ==
    CASE o = "getCreditScore" -> getCreditScore(r)
      [] o = "getFinancialHealth" -> getFinancialHealth(r)
      [] OTHER -> getAssetRecommendation(r)

\* C16: whatever the other caller has done, is doing or has received, the
\* outcome of a call is the one its own response determines, and two calls of
\* one operation that received equal responses have equal outcomes.
C16_OwnResponseOnly ==
    /\ \A c \in Callers :
         pc[c] = "settled" => outcome[c] = OutcomeOf(op[c], reply[c])
    /\ \A c, d \in Callers :
         /\ pc[c] = "settled"
         /\ pc[d] = "settled"
         /\ op[c] = op[d]
         /\ reply[c] = reply[d]
         => outcome[c] = outcome[d]

\* Two getCreditScore calls are settled, one with a result and one with an
\* error, each from its own response.
C16_Witness ==
    /\ Settled("c1", "getCreditScore")
    /\ Settled("c2", "getCreditScore")
    /\ reply["c1"].kind = "reject"
    /\ reply["c2"].kind = "resolve"
    /\ outcome["c1"].c = "throw"
    /\ outcome["c2"].c = "return"
    /\ outcome["c2"].v = LegacyResult(reply["c2"].data)

\* C17: when the base URL variable is absent, no gateway operation sends a
\* request.
C17_NoRequestWithoutBaseUrl ==
    \A c \in Callers : env = Undef => posts[c] = <<>>

\* The path the claim assigns to operation o.
ClaimedPath(o) ==
    CASE o = "getCreditScore" -> "/credit/score"
      [] o = "getFinancialHealth" -> "/financial-health/score"
      [] o = "getAssetRecommendation" -> "/asset-management/recommendation"

\* C18: what a call sends is one POST to the path of its operation, with the
\* caller's request object as the JSON body, under the base URL followed by
\* /api.
C18_FixedPaths ==
    \A c \in Callers :
        pc[c] # "idle" =>
            /\ Len(posts[c]) = 1
            /\ posts[c][1].method = "POST"
            /\ posts[c][1].url = ClaimedPath(op[c])
            /\ posts[c][1].data = given[c]
            /\ posts[c][1].contentType = "application/json"
            /\ env.t = "string" => posts[c][1].baseURL = env.v \o "/api"

\* A getFinancialHealth call has posted its request object to
\* /financial-health/score under the configured base URL.
C18_Witness ==
    \E c \in Callers :
        /\ pc[c] = "awaiting"
        /\ op[c] = "getFinancialHealth"
        /\ posts[c][1].url = "/financial-health/score"
        /\ posts[c][1].baseURL = "https://backend.example/api"
        /\ posts[c][1].data = Obj(dummyRequest)

\* C19: getFinancialHealth and getAssetRecommendation return every 2xx
\* payload as it is.
C19_NoNormalization ==
    \A c \in Callers :
        /\ pc[c] = "settled"
        /\ op[c] \in {"getFinancialHealth", "getAssetRecommendation"}
        /\ reply[c].kind = "resolve"
        => outcome[c] = Return(reply[c].data)

\* getFinancialHealth returned a payload with `score` and no `credit_score`
\* unchanged.
C19_Witness ==
    \E c \in Callers :
        /\ Settled(c, "getFinancialHealth")
        /\ reply[c].kind = "resolve"
        /\ reply[c].data = Obj([score |-> Num(700), probability |-> Num(2501)])
        /\ outcome[c].c = "return"
        /\ outcome[c].v = reply[c].data

\* C20: during and after a call, whether it returned or threw, the request
\* object is as the caller passed it.
C20_RequestUnchanged ==
    \A c \in Callers : pc[c] # "idle" => request[c] = given[c]

\* A call has thrown and its request object is as it was passed.
C20_Witness ==
    \E c \in Callers :
        /\ pc[c] = "settled"
        /\ outcome[c].c = "throw"
        /\ given[c] = Obj(dummyRequest)
        /\ request[c] = Obj(dummyRequest)

----------------------------------------------------------------------------
(* Properties of the deployment, the router and the panel *)

\* A run of testBackend holds call record c, in flight or completed.
PanelCall(c) == pc[c] # "idle" /\ op[c] = "getCreditScore"

\* C21: with only VITE_API_URL set to a backend URL, the gateway's requests
\* go to <that URL>/api/..., and the endpoint the panel shows is the
\* endpoint getCreditScore calls.
C21_ApiUrlIsBaseUrl ==
    \A c \in Callers :
        PanelCall(c) /\ envApiUrl.t = "string" /\ env = Undef =>
            /\ posts[c][1].baseURL = envApiUrl.v \o "/api"
            /\ ShownEndpoint(envApiUrl) = CalledEndpoint(posts[c][1])

\* C28: every error getCreditScore and getAssetRecommendation throw carries
\* a message that is not the empty string, whatever the failure's shape.
C28_MessageNeverEmpty ==
    \A c \in Callers :
        /\ pc[c] = "settled"
        /\ op[c] \in {"getCreditScore", "getAssetRecommendation"}
        /\ outcome[c].c = "throw"
        => outcome[c].e.message # ""

\* The page each path is to show: the page of the declared route the path
\* is an instance of, NotFound for any other path.
ExpectedPage(path) ==
    CASE path = <<"dashboard">> -> "Dashboard"
      [] path = <<"applicants">> -> "Applicants"
      [] path = <<"credit-scoring">> -> "CreditScoring"
      [] Len(path) = 2 /\ path[1] = "applicant" -> "ApplicantDetail"
      [] path = <<"asset-management">> -> "AssetManagementDashboard"
      [] Len(path) = 3 /\ path[1] = "asset-management" /\ path[2] = "customers"
            -> "CustomerInvestmentProfile"
      [] Len(path) = 3 /\ path[1] = "asset-management"
                       /\ path[2] = "recommendations"
            -> "InvestmentRecommendation"
      [] Len(path) = 3 /\ path[1] = "asset-management" /\ path[2] = "portfolio"
            -> "PortfolioViewer"
      [] path = <<"admin", "asset-management">> -> "AdminAssetManagement"
      [] OTHER -> "NotFound"

\* C22: a navigation to the root path ends on /dashboard, and the history
\* stack never holds an entry for the root path, so that going back cannot
\* reach it or the redirect again.
C22_RootRedirectReplaces ==
    /\ \A i \in DOMAIN history : history[i] # Root
    /\ requested = Root =>
          /\ history[cursor] = DashboardPath
          /\ page = Page("Dashboard")

\* The user went from another page to the root path.
C22_Witness ==
    /\ requested = Root
    /\ cursor = 2
    /\ history[1] # DashboardPath
    /\ page = Page("Dashboard")

\* C23: the path shown is routed to exactly one page, the page of the
\* declared route it is an instance of and NotFound for every other path.
C23_OnePagePerPath ==
    history[cursor] # Root =>
        /\ page = Page(ExpectedPage(history[cursor]))
        /\ requested # Root => history[cursor] = requested

\* A path that goes past a declared route has been asked for after the
\* route itself.
C23_Witness ==
    /\ cursor = 2
    /\ history = << <<"applicant", "7">>, <<"applicant", "7", "edit">> >>
    /\ page = Page("NotFound")

\* The call records of runs of testBackend that are in flight.
InFlight == {c \in Callers : pc[c] = "awaiting" /\ op[c] = "getCreditScore"}

\* Call record c goes from in flight to completed in this step.
Settles(c) == pc[c] = "awaiting" /\ pc'[c] = "settled"

\* C24: when the awaited call of a test completes, status becomes SUCCESS
\* if it returned and ERROR if it threw; status is LOADING only while a call
\* is in flight, and is never IDLE again once it has left IDLE.
C24_StatusFollowsCall ==
    [][/\ \A c \in Callers :
            Settles(c) =>
                /\ outcome'[c].c = "return" => status' = "SUCCESS"
                /\ outcome'[c].c = "throw" => status' = "ERROR"
       /\ status' = "LOADING" => InFlight' # {}
       /\ status # "IDLE" => status' # "IDLE"]_vars

\* A test has failed and left ERROR behind.
C24_Witness ==
    /\ status = "ERROR"
    /\ latest # "none"
    /\ pc[latest] = "settled"
    /\ outcome[latest].c = "throw"

\* C25: the button is disabled exactly while status is LOADING, which is
\* exactly while a call of the panel is in flight; at most one is in flight,
\* and what the panel holds once the run started last has completed is that
\* run's outcome, not an older run's.
C25_OneTestAtATime ==
    /\ ButtonDisabled(status) <=> status = "LOADING"
    /\ ButtonDisabled(status) <=> InFlight # {}
    /\ Cardinality(InFlight) <= 1
    /\ latest # "none" /\ pc[latest] = "settled" =>
          /\ outcome[latest].c = "throw" => status = "ERROR"
          /\ outcome[latest].c = "return" =>
                status = "SUCCESS" /\ result = outcome[latest].v

\* A later test is in flight after an earlier one succeeded.
C25_Witness ==
    /\ status = "LOADING"
    /\ Cardinality(InFlight) = 1
    /\ result # Null

\* C26: with status ERROR the stored error is a non-empty string, the
\* thrown message or the fallback text when that message is empty; with
\* status SUCCESS or LOADING the stored error is null.
C26_ErrorMatchesStatus ==
    /\ status = "ERROR" =>
          /\ panelError.t = "string"
          /\ panelError.v # ""
          /\ panelError.v = IF outcome[latest].e.message # ""
                            THEN outcome[latest].e.message
                            ELSE "Failed to connect to backend"
    /\ status \in {"SUCCESS", "LOADING"} => panelError = Null

\* A test failed with an empty message and the fallback text is stored.
C26_Witness ==
    /\ status = "ERROR"
    /\ outcome[latest].e.message = ""
    /\ panelError = Str("Failed to connect to backend")

\* C27: starting a test and a failing test leave the stored result as it
\* was; the result changes only when a test succeeds, to its response.
C27_ResultKeptUntilSuccess ==
    [][/\ \A c \in Callers :
            Settles(c) /\ outcome'[c].c = "throw" => result' = result
       /\ InFlight' # {} /\ InFlight = {} => result' = result
       /\ result' # result =>
            /\ status' = "SUCCESS"
            /\ \E c \in Callers :
                 Settles(c) /\ outcome'[c] = Return(result')]_vars

\* A test has failed after an earlier one succeeded: the earlier result is
\* still stored next to the error.
C27_Witness ==
    /\ status = "ERROR"
    /\ panelError # Null
    /\ result # Null

====
